---- MODULE Spec2Model ----
(***************************************************************************)
(* A model of src/airtravel.py: class Flight (flight-number validation,    *)
(* the seat map, allocate_seat, _parse_seat, relocate_passenger,           *)
(* num_available_seats) over the two aircraft AirbusA345 and Boeing777.    *)
(*                                                                         *)
(* A Python str is a sequence of characters, each character a one-element  *)
(* TLA+ string.  Two characters outside ASCII are named by their code      *)
(* point: "U+4E2D" (a CJK letter: alphabetic, neither upper nor lower      *)
(* case) and "U+00B2" (superscript two: str.isdigit() is True, int()       *)
(* rejects it).  Python's None is the value None below.                    *)
(***************************************************************************)
EXTENDS Integers, Sequences, FiniteSets, TLC

VARIABLES candidate, pc, number, aircraft, seating, last, allocated

vars == <<candidate, pc, number, aircraft, seating, last, allocated>>

None == "<None>"

(***************************************************************************)
(* Characters and the str methods the program calls.                       *)
(***************************************************************************)
UpperChars == {"A", "B", "C", "D", "E", "F", "G", "H", "I", "J", "K", "Z"}

LowerChars == {"a", "b", "x"}

UncasedAlphaChars == {"U+4E2D"}

DecimalSeq == <<"0", "1", "2", "3", "4", "5", "6", "7", "8", "9">>

DecimalChars == {DecimalSeq[i] : i \in 1..10}

NonDecimalDigitChars == {"U+00B2"}

DigitValue(c) == (CHOOSE i \in 1..10 : DecimalSeq[i] = c) - 1

\* str.isalpha(): non-empty and every character alphabetic.
str_isalpha(s) ==
    /\ Len(s) > 0
    /\ \A i \in 1..Len(s) : s[i] \in UpperChars \cup LowerChars \cup UncasedAlphaChars

\* str.isupper(): at least one cased character and no cased character that
\* is not upper case; characters without case are ignored.
str_isupper(s) ==
    /\ \E i \in 1..Len(s) : s[i] \in UpperChars \cup LowerChars
    /\ \A i \in 1..Len(s) : s[i] \notin LowerChars

\* str.isdigit(): non-empty and every character a digit (superscripts count).
str_isdigit(s) ==
    /\ Len(s) > 0
    /\ \A i \in 1..Len(s) : s[i] \in DecimalChars \cup NonDecimalDigitChars

\* s[:n] and s[n:] for n >= 0, and s[:-1]
SliceTo(s, n) == SubSeq(s, 1, IF n < Len(s) THEN n ELSE Len(s))

SliceFrom(s, n) == SubSeq(s, n + 1, Len(s))

RECURSIVE LStrip(_)
LStrip(s) == IF Len(s) > 0 /\ s[1] = " " THEN LStrip(Tail(s)) ELSE s

RECURSIVE RStrip(_)
RStrip(s) ==
    IF Len(s) > 0 /\ s[Len(s)] = " " THEN RStrip(SubSeq(s, 1, Len(s) - 1)) ELSE s

RECURSIVE DecimalValue(_)
DecimalValue(s) ==
    IF Len(s) = 0 THEN 0
    ELSE IF s[Len(s)] = "_" THEN DecimalValue(SubSeq(s, 1, Len(s) - 1))
    ELSE 10 * DecimalValue(SubSeq(s, 1, Len(s) - 1)) + DigitValue(s[Len(s)])

\* The digits of an int() literal: decimal digits, single underscores
\* allowed between two digits.
IsDecimalBody(s) ==
    /\ Len(s) > 0
    /\ s[1] \in DecimalChars
    /\ s[Len(s)] \in DecimalChars
    /\ \A i \in 1..Len(s) : s[i] \in DecimalChars \cup {"_"}
    /\ \A i \in 1..(Len(s) - 1) : ~(s[i] = "_" /\ s[i + 1] = "_")

\* int(s) for a str s, base 10: surrounding whitespace is stripped, one
\* sign is allowed.  ok = FALSE stands for the ValueError int() raises.
int(s) ==
    LET t == RStrip(LStrip(s))
        signed == Len(t) > 0 /\ t[1] \in {"+", "-"}
        body == IF signed THEN Tail(t) ELSE t
    IN  IF IsDecimalBody(body)
        THEN [ok |-> TRUE,
              val |-> IF signed /\ t[1] = "-"
                      THEN 0 - DecimalValue(body) ELSE DecimalValue(body)]
        ELSE [ok |-> FALSE, val |-> 0]

(***************************************************************************)
(* The aircraft: model() and seating_plan().                               *)
(***************************************************************************)
\* range(a, b) as the sequence a, a+1, ..., b-1
range(a, b) == [i \in 1..(IF b > a THEN b - a ELSE 0) |-> a + i - 1]

AirbusA345 ==
    [model |-> "Airbus A345",
     rows |-> range(1, 23),
     seats |-> <<"A", "B", "C", "D", "E", "F">>]

Boeing777 ==
    [model |-> "Boeing 777",
     rows |-> range(1, 23),
     seats |-> <<"A", "B", "C", "D", "E", "F", "G", "H", "I", "J", "K">>]

Aircrafts == {AirbusA345, Boeing777}

\* x in seq
In(x, seq) == \E i \in 1..Len(seq) : seq[i] = x

Elements(seq) == {seq[i] : i \in 1..Len(seq)}

(***************************************************************************)
(* Flight.__init__                                                         *)
(***************************************************************************)
MaxRoute == 9999

\* The checks of lines 9-19, in order; "" when the number is accepted.
\* "InvalidLiteral" is the ValueError of int() itself, raised inside the
\* condition of line 18 when isdigit() holds and int() rejects the text.
flight_number_error(n) ==
    IF ~str_isalpha(SliceTo(n, 2)) THEN "MissingAirlineCode"
    ELSE IF ~str_isupper(SliceTo(n, 2)) THEN "InvalidAirlineCode"
    ELSE IF ~str_isdigit(SliceFrom(n, 2)) THEN "InvalidRouteNumber"
    ELSE IF ~int(SliceFrom(n, 2)).ok THEN "InvalidLiteral"
    ELSE IF ~(int(SliceFrom(n, 2)).val <= MaxRoute) THEN "InvalidRouteNumber"
    ELSE ""

\* One entry of the list _seating: the placeholder None, or one row's dict.
NoneRow == [isNone |-> TRUE, d |-> <<>>]

DictRow(d) == [isNone |-> FALSE, d |-> d]

\* initial_seating without the leading None: the list has one entry per row
\* and row 1 is at Python's index 0.
initial_seating_no_placeholder(ac) ==
    [i \in 1..Len(ac.rows) |-> DictRow([letter \in Elements(ac.seats) |-> None])]

\* [None] + [{letter: None for letter in seats} for _ in rows]
\* Python's index i of the list is index i + 1 of the sequence.
initial_seating(ac) ==
    <<NoneRow>> \o [i \in 1..Len(ac.rows) |->
                        DictRow([letter \in Elements(ac.seats) |-> None])]

(***************************************************************************)
(* Flight._parse_seat, allocate_seat, relocate_passenger,                  *)
(* num_available_seats: each as a function of the object's fields.         *)
(***************************************************************************)
\* _parse_seat with the row text read before the letter is tested.
parse_seat_row_first(ac, seat) ==
    LET letter == seat[Len(seat)]
        row_text == SubSeq(seat, 1, Len(seat) - 1)
        row == int(row_text)
    IN  IF Len(seat) = 0
        THEN [err |-> "IndexError", row |-> 0, letter |-> ""]
        ELSE IF ~row.ok
        THEN [err |-> "InvalidSeatRow", row |-> 0, letter |-> letter]
        ELSE IF ~In(row.val, ac.rows)
        THEN [err |-> "InvalidSeatRow", row |-> row.val, letter |-> letter]
        ELSE IF ~In(letter, ac.seats)
        THEN [err |-> "InvalidSeatLetter", row |-> 0, letter |-> letter]
        ELSE [err |-> "", row |-> row.val, letter |-> letter]

\* The result of _parse_seat: err = "" and (row, letter), or the error
\* raised.  "IndexError" is seat[-1] on the empty string.
parse_seat(ac, seat) ==
    LET letter == seat[Len(seat)]
        row_text == SubSeq(seat, 1, Len(seat) - 1)
        row == int(row_text)
    IN  IF Len(seat) = 0
        THEN [err |-> "IndexError", row |-> 0, letter |-> ""]
        ELSE IF ~In(letter, ac.seats)
        THEN [err |-> "InvalidSeatLetter", row |-> 0, letter |-> letter]
        ELSE IF ~row.ok
        THEN [err |-> "InvalidSeatRow", row |-> 0, letter |-> letter]
        ELSE IF ~In(row.val, ac.rows)
        THEN [err |-> "InvalidSeatRow", row |-> row.val, letter |-> letter]
        ELSE [err |-> "", row |-> row.val, letter |-> letter]

\* The sequence index of Python's list index i (negative i counts from the
\* end), 0 when i is out of range.
list_index(s, i) ==
    LET k == IF i >= 0 THEN i + 1 ELSE Len(s) + i + 1
    IN  IF k \in 1..Len(s) THEN k ELSE 0

\* The fault of evaluating _seating[row][letter], "" when there is none.
subscript_fault(s, row, letter) ==
    IF list_index(s, row) = 0 THEN "IndexError"
    ELSE IF s[list_index(s, row)].isNone THEN "TypeError"
    ELSE IF letter \notin DOMAIN s[list_index(s, row)].d THEN "KeyError"
    ELSE ""

\* _seating[row][letter]
get_seat(s, row, letter) == s[list_index(s, row)].d[letter]

\* set_seat when every row of the list is one shared dict: the write shows
\* in every row.
set_seat_every_row(s, row, letter, value) ==
    [i \in 1..Len(s) |->
        IF s[i].isNone THEN s[i] ELSE [s[i] EXCEPT !.d[letter] = value]]

\* _seating[row][letter] = value
set_seat(s, row, letter, value) ==
    [s EXCEPT ![list_index(s, row)].d[letter] = value]

\* allocate_seat without the test of line 52: an occupied cell is
\* overwritten.
allocate_seat_overwrite(s, ac, seat, passenger) ==
    LET p == parse_seat(ac, seat)
    IN  IF p.err # "" THEN [raised |-> p.err, seating |-> s]
        ELSE [raised |-> "", seating |-> set_seat(s, p.row, p.letter, passenger)]

\* allocate_seat(seat, passenger): the error raised ("" for a normal
\* return) and the list _seating afterwards.
allocate_seat(s, ac, seat, passenger) ==
    LET p == parse_seat(ac, seat)
    IN  IF p.err # "" THEN [raised |-> p.err, seating |-> s]
        ELSE IF subscript_fault(s, p.row, p.letter) # ""
        THEN [raised |-> subscript_fault(s, p.row, p.letter), seating |-> s]
        ELSE IF get_seat(s, p.row, p.letter) # None
        THEN [raised |-> "SeatOccupied", seating |-> s]
        ELSE [raised |-> "", seating |-> set_seat(s, p.row, p.letter, passenger)]

\* relocate_passenger with the destination parsed and tested before the
\* source.
relocate_passenger_dest_first(s, ac, from_seat, to_seat) ==
    LET f == parse_seat(ac, from_seat)
        t == parse_seat(ac, to_seat)
        moved == set_seat(s, t.row, t.letter, get_seat(s, f.row, f.letter))
    IN  IF t.err # "" THEN [raised |-> t.err, seating |-> s]
        ELSE IF get_seat(s, t.row, t.letter) = None
        THEN [raised |-> "SeatOccupied", seating |-> s]
        ELSE IF f.err # "" THEN [raised |-> f.err, seating |-> s]
        ELSE IF get_seat(s, f.row, f.letter) = None
        THEN [raised |-> "NoPassengerToRelocate", seating |-> s]
        ELSE [raised |-> "",
              seating |-> set_seat(moved, f.row, f.letter, None)]

\* relocate_passenger with the source cell cleared before the destination
\* is parsed and tested.
relocate_passenger_clears_first(s, ac, from_seat, to_seat) ==
    LET f == parse_seat(ac, from_seat)
        t == parse_seat(ac, to_seat)
        cleared == set_seat(s, f.row, f.letter, None)
    IN  IF f.err # "" THEN [raised |-> f.err, seating |-> s]
        ELSE IF get_seat(s, f.row, f.letter) = None
        THEN [raised |-> "NoPassengerToRelocate", seating |-> s]
        ELSE IF t.err # "" THEN [raised |-> t.err, seating |-> cleared]
        ELSE IF get_seat(s, t.row, t.letter) = None
        THEN [raised |-> "SeatOccupied", seating |-> cleared]
        ELSE [raised |-> "",
              seating |-> set_seat(cleared, t.row, t.letter,
                                   get_seat(s, f.row, f.letter))]

\* relocate_passenger(from_seat, to_seat), line by line: the source is
\* parsed and tested, then the destination is parsed and tested (line 88
\* raises "Seat ... is already occupied" when the destination cell is
\* None), then the two assignments of lines 91 and 92 run in that order.
relocate_passenger(s, ac, from_seat, to_seat) ==
    LET f == parse_seat(ac, from_seat)
        t == parse_seat(ac, to_seat)
        moved == set_seat(s, t.row, t.letter, get_seat(s, f.row, f.letter))
    IN  IF f.err # "" THEN [raised |-> f.err, seating |-> s]
        ELSE IF subscript_fault(s, f.row, f.letter) # ""
        THEN [raised |-> subscript_fault(s, f.row, f.letter), seating |-> s]
        ELSE IF get_seat(s, f.row, f.letter) = None
        THEN [raised |-> "NoPassengerToRelocate", seating |-> s]
        ELSE IF t.err # "" THEN [raised |-> t.err, seating |-> s]
        ELSE IF subscript_fault(s, t.row, t.letter) # ""
        THEN [raised |-> subscript_fault(s, t.row, t.letter), seating |-> s]
        ELSE IF get_seat(s, t.row, t.letter) = None
        THEN [raised |-> "SeatOccupied", seating |-> s]
        ELSE [raised |-> "",
              seating |-> set_seat(moved, f.row, f.letter, None)]

\* none_count with the test turned round: the occupied seats are counted.
none_count_occupied(d) == Cardinality({letter \in DOMAIN d : d[letter] # None})

\* sum(1 for s in row.values() if s is None) for one dict
none_count(d) == Cardinality({letter \in DOMAIN d : d[letter] = None})

RECURSIVE sum_rows(_, _)
sum_rows(s, i) ==
    IF i > Len(s) THEN 0
    ELSE (IF s[i].isNone THEN 0 ELSE none_count(s[i].d)) + sum_rows(s, i + 1)

\* num_available_seats(): rows that are None are skipped.
num_available_seats(s) == sum_rows(s, 1)

(***************************************************************************)
(* Flight.number, airline, aircraft_model, _passenger_seats and            *)
(* making_boarding_cards.                                                  *)
(***************************************************************************)
\* airline() with the slice one character too long.
airline_three(n) == SliceTo(n, 3)

\* airline(): self._number[:2]
airline(n) == SliceTo(n, 2)

\* aircraft_model(): self._aircraft.model()
aircraft_model(ac) == ac.model

\* The characters used here in ascending order of code point: str values
\* compare character by character in this order.
CodePointOrder ==
    <<" ", "+", "-", "0", "1", "2", "3", "4", "5", "6", "7", "8", "9",
      "A", "B", "C", "D", "E", "F", "G", "H", "I", "J", "K", "L", "M",
      "N", "O", "P", "Q", "R", "S", "T", "U", "V", "W", "X", "Y", "Z", "_",
      "a", "b", "c", "d", "e", "f", "g", "h", "i", "j", "k", "l", "m",
      "n", "o", "p", "q", "r", "s", "t", "u", "v", "w", "x", "y", "z",
      "U+00B2", "U+4E2D">>

CodePoint(c) == CHOOSE i \in 1..Len(CodePointOrder) : CodePointOrder[i] = c

\* a < b for two str values
RECURSIVE str_lt(_, _)
str_lt(a, b) ==
    IF Len(b) = 0 THEN FALSE
    ELSE IF Len(a) = 0 THEN TRUE
    ELSE IF a[1] # b[1] THEN CodePoint(a[1]) < CodePoint(b[1])
    ELSE str_lt(Tail(a), Tail(b))

\* str(n) for an int n, as f"{row}" formats it
RECURSIVE str(_)
str(n) ==
    IF n < 0 THEN <<"-">> \o str(0 - n)
    ELSE IF n < 10 THEN <<DecimalSeq[n + 1]>>
    ELSE str(n \div 10) \o <<DecimalSeq[(n % 10) + 1]>>

\* The characters of the passenger names of make_flights (the names are
\* kept as whole values in the seat map).
NameText ==
    [name \in {"Lionel Man", "Dude Perfect", "Pana Wana", "Flir Digg", "Zen Mod"} |->
        CASE name = "Lionel Man" -> <<"L", "i", "o", "n", "e", "l", " ", "M", "a", "n">>
          [] name = "Dude Perfect" ->
                <<"D", "u", "d", "e", " ", "P", "e", "r", "f", "e", "c", "t">>
          [] name = "Pana Wana" -> <<"P", "a", "n", "a", " ", "W", "a", "n", "a">>
          [] name = "Flir Digg" -> <<"F", "l", "i", "r", " ", "D", "i", "g", "g">>
          [] name = "Zen Mod" -> <<"Z", "e", "n", " ", "M", "o", "d">>]

\* (passenger, seat) < (passenger, seat): tuples compare by their first
\* differing element.
pair_lt(x, y) ==
    IF x[1] # y[1] THEN str_lt(NameText[x[1]], NameText[y[1]])
    ELSE str_lt(x[2], y[2])

\* sorted(): a stable sort, here by insertion.
RECURSIVE insert_sorted(_, _)
insert_sorted(x, sq) ==
    IF Len(sq) = 0 THEN <<x>>
    ELSE IF pair_lt(x, sq[1]) THEN <<x>> \o sq
    ELSE <<sq[1]>> \o insert_sorted(x, Tail(sq))

\* sorted() left out: the pairs stay in the order of the loops.
unsorted(sq) == sq

RECURSIVE sorted(_)
sorted(sq) ==
    IF Len(sq) = 0 THEN <<>>
    ELSE insert_sorted(sq[Len(sq)], sorted(SubSeq(sq, 1, Len(sq) - 1)))

\* The (row, letter) pairs in the order of the two loops of lines 110-111.
loop_order(ac) ==
    [k \in 1..(Len(ac.rows) * Len(ac.seats)) |->
        <<ac.rows[((k - 1) \div Len(ac.seats)) + 1],
          ac.seats[((k - 1) % Len(ac.seats)) + 1]>>]

\* The pairs yielded for the occupied cells, in loop order.
yielded(s, order) ==
    LET occ == {k \in 1..Len(order) : get_seat(s, order[k][1], order[k][2]) # None}
        nth(i) == CHOOSE k \in occ : Cardinality({j \in occ : j <= k}) = i
    IN  [i \in 1..Cardinality(occ) |->
            <<get_seat(s, order[nth(i)][1], order[nth(i)][2]),
              str(order[nth(i)][1]) \o <<order[nth(i)][2]>>>>]

\* _passenger_seats(): the pairs the generator yields, or the fault of the
\* first subscript that fails.
passenger_seats(s, ac) ==
    LET order == loop_order(ac)
        bad == {k \in 1..Len(order) : subscript_fault(s, order[k][1], order[k][2]) # ""}
        first == CHOOSE k \in bad : \A j \in bad : k <= j
    IN  IF bad # {}
        THEN [raised |-> subscript_fault(s, order[first][1], order[first][2]),
              pairs |-> <<>>]
        ELSE [raised |-> "", pairs |-> yielded(s, order)]

\* making_boarding_cards that takes every printed passenger off the map.
making_boarding_cards_clears(s, ac, n) ==
    LET ps == passenger_seats(s, ac)
        inorder == sorted(ps.pairs)
    IN  [raised |-> ps.raised,
         cards |-> [i \in 1..Len(inorder) |->
                        <<inorder[i][1], inorder[i][2], n, aircraft_model(ac)>>],
         seating |-> IF ps.raised = "" THEN initial_seating(ac) ELSE s]

\* making_boarding_cards(card_printer): the calls made to card_printer, in
\* order, and the list _seating afterwards.  sorted() runs the generator to
\* its end before the first call, so a fault leaves no call made.
making_boarding_cards(s, ac, n) ==
    LET ps == passenger_seats(s, ac)
        inorder == sorted(ps.pairs)
    IN  [raised |-> ps.raised,
         cards |-> [i \in 1..Len(inorder) |->
                        <<inorder[i][1], inorder[i][2], n, aircraft_model(ac)>>],
         seating |-> s]

(***************************************************************************)
(* The inputs of the calls.                                                *)
(***************************************************************************)
MaxRouteLen == 5

SeqsUpTo(S, n) == UNION {[1..k -> S] : k \in 0..n}

PrefixChars == {"B", "b", "1", "U+4E2D"}

RouteChars == {"0", "1", "9", "x", "U+00B2"}

\* Candidate flight numbers for the validation: up to two leading
\* characters followed by up to len further characters.
NumberInputs(len) ==
    {p \o r : p \in SeqsUpTo(PrefixChars, 2), r \in SeqsUpTo(RouteChars, len)}

\* The first flight number of make_flights, and one that is rejected.
FlightNumbers == {<<"B", "A", "1", "6", "5", "4">>, <<"b", "a", "1">>}

SeatInputs ==
    {<<"1", "A">>, <<"1", "2", "C">>, <<"2", "0", "E">>,
     <<"1", "Z">>, <<"x", "A">>, <<"2", "3", "A">>}

Passengers == {"Lionel Man", "Dude Perfect"}

(***************************************************************************)
(* The state machine: one object, one call per step.  candidate is the     *)
(* flight number the constructor is called with.  last is the call         *)
(* just made (its arguments, what it raised or returned, and the object's  *)
(* fields before it); allocated is the arguments of the call made before   *)
(* last when that call was an allocate_seat that returned normally, and    *)
(* the empty tuple otherwise.                                              *)
(***************************************************************************)
Fields == [number |-> number, aircraft |-> aircraft, seating |-> seating]

Call(op, args, raised, result) ==
    [op |-> op, args |-> args, raised |-> raised, result |-> result,
     before |-> Fields]

Earlier ==
    IF last.op = "allocate_seat" /\ last.raised = "" THEN last.args ELSE <<>>

Start(numbers) ==
    /\ candidate \in numbers
    /\ pc = "new"
    /\ number = <<>>
    /\ aircraft = [model |-> "", rows |-> <<>>, seats |-> <<>>]
    /\ seating = <<>>
    /\ last = [op |-> "", args |-> <<>>, raised |-> "", result |-> 0,
               before |-> [number |-> <<>>,
                           aircraft |-> [model |-> "", rows |-> <<>>, seats |-> <<>>],
                           seating |-> <<>>]]
    /\ allocated = <<>>

Init == Start(FlightNumbers)

\* Flight(n, ac): the fields are assigned only when no check raises.
Construct(n, ac) ==
    /\ pc = "new"
    /\ last' = Call("__init__", <<n, ac>>, flight_number_error(n), 0)
    /\ allocated' = Earlier
    /\ UNCHANGED candidate
    /\ IF flight_number_error(n) = ""
       THEN /\ pc' = "live"
            /\ number' = n
            /\ aircraft' = ac
            /\ seating' = initial_seating(ac)
       ELSE /\ pc' = "failed"
            /\ UNCHANGED <<number, aircraft, seating>>

AllocateSeat(seat, passenger) ==
    /\ pc = "live"
    /\ LET r == allocate_seat(seating, aircraft, seat, passenger)
       IN  /\ seating' = r.seating
           /\ last' = Call("allocate_seat", <<seat, passenger>>, r.raised, 0)
    /\ allocated' = Earlier
    /\ UNCHANGED <<candidate, pc, number, aircraft>>

RelocatePassenger(from_seat, to_seat) ==
    /\ pc = "live"
    /\ LET r == relocate_passenger(seating, aircraft, from_seat, to_seat)
       IN  /\ seating' = r.seating
           /\ last' = Call("relocate_passenger", <<from_seat, to_seat>>, r.raised, 0)
    /\ allocated' = Earlier
    /\ UNCHANGED <<candidate, pc, number, aircraft>>

NumAvailableSeats ==
    /\ pc = "live"
    /\ last' = Call("num_available_seats", <<>>, "", num_available_seats(seating))
    /\ allocated' = Earlier
    /\ UNCHANGED <<candidate, pc, number, aircraft, seating>>

MakingBoardingCards ==
    /\ pc = "live"
    /\ LET r == making_boarding_cards(seating, aircraft, number)
       IN  /\ seating' = r.seating
           /\ last' = Call("making_boarding_cards", <<>>, r.raised, r.cards)
    /\ allocated' = Earlier
    /\ UNCHANGED <<candidate, pc, number, aircraft>>

\* number() and airline()
NumberCall ==
    /\ pc = "live"
    /\ last' = Call("number", <<>>, "", number)
    /\ allocated' = Earlier
    /\ UNCHANGED <<candidate, pc, number, aircraft, seating>>

AirlineCall ==
    /\ pc = "live"
    /\ last' = Call("airline", <<>>, "", airline(number))
    /\ allocated' = Earlier
    /\ UNCHANGED <<candidate, pc, number, aircraft, seating>>

Next ==
    \/ \E ac \in Aircrafts : Construct(candidate, ac)
    \/ \E seat \in SeatInputs, passenger \in Passengers : AllocateSeat(seat, passenger)
    \/ \E from_seat \in SeatInputs, to_seat \in SeatInputs :
            RelocatePassenger(from_seat, to_seat)
    \/ NumAvailableSeats
    \/ MakingBoardingCards
    \/ NumberCall
    \/ AirlineCall

Spec == Init /\ [][Next]_vars

\* The validation alone, over every candidate flight number.
InitNumber == Start(NumberInputs(MaxRouteLen))

NextNumber == \E ac \in Aircrafts : Construct(candidate, ac)

SpecNumber == InitNumber /\ [][NextNumber]_vars

\* The same over the candidates written in ASCII alone.
AsciiNumberInputs(len) ==
    {n \in NumberInputs(len) :
        \A i \in 1..Len(n) : n[i] \notin UncasedAlphaChars \cup NonDecimalDigitChars}

InitAscii == Start(AsciiNumberInputs(MaxRouteLen))

SpecAscii == InitAscii /\ [][NextNumber]_vars

\* Every operation on a flight built from a candidate that has an airline
\* code and up to MaxKeepRoute further ASCII characters, with one aircraft,
\* fewer seats and one passenger.
MaxKeepRoute == 4

KeepNumbers ==
    {<<"B", "B">> \o r :
        r \in SeqsUpTo(RouteChars \ NonDecimalDigitChars, MaxKeepRoute)}

InitKeep == Start(KeepNumbers)

KeepAircrafts == {AirbusA345}

KeepSeats == {<<"1", "A">>, <<"1", "2", "C">>}

KeepPassengers == {"Lionel Man"}

NextKeep ==
    \/ \E ac \in KeepAircrafts : Construct(candidate, ac)
    \/ \E seat \in KeepSeats, passenger \in KeepPassengers : AllocateSeat(seat, passenger)
    \/ \E from_seat \in KeepSeats, to_seat \in KeepSeats :
            RelocatePassenger(from_seat, to_seat)
    \/ NumAvailableSeats
    \/ MakingBoardingCards
    \/ NumberCall
    \/ AirlineCall

SpecKeep == InitKeep /\ [][NextKeep]_vars

\* _parse_seat alone, on a fresh flight, over every designator of up to
\* MaxSeatLen characters; here candidate is the designator.
MaxSeatLen == 3

SeatChars == {"0", "1", "2", "3", "A", "K", "Z", "x", "+", "-", " ", "_"}

SeatTexts(len) == SeqsUpTo(SeatChars, len)

InitSeat ==
    /\ candidate \in SeatTexts(MaxSeatLen)
    /\ pc = "live"
    /\ number = <<"B", "A", "1", "6", "5", "4">>
    /\ aircraft \in Aircrafts
    /\ seating = initial_seating(aircraft)
    /\ last = [op |-> "__init__", args |-> <<number, aircraft>>, raised |-> "",
               result |-> 0,
               before |-> [number |-> <<>>,
                           aircraft |-> [model |-> "", rows |-> <<>>, seats |-> <<>>],
                           seating |-> <<>>]]
    /\ allocated = <<>>

ParseSeat ==
    /\ pc = "live"
    /\ LET p == parse_seat(aircraft, candidate)
       IN  last' = Call("_parse_seat", <<candidate>>, p.err, <<p.row, p.letter>>)
    /\ allocated' = Earlier
    /\ UNCHANGED <<candidate, pc, number, aircraft, seating>>

NextSeat == ParseSeat

SpecSeat == InitSeat /\ [][NextSeat]_vars

\* The first flight of make_flights: its five allocate_seat calls, in any
\* order and repeated, with the two reads.
ScenarioCalls ==
    {<<(<<"1", "2", "C">>), "Lionel Man">>, <<(<<"1", "0", "A">>), "Dude Perfect">>,
     <<(<<"1", "1", "D">>), "Pana Wana">>, <<(<<"1", "A">>), "Flir Digg">>,
     <<(<<"2", "B">>), "Zen Mod">>}

InitScenario == Start({<<"B", "A", "1", "6", "5", "4">>})

NextScenario ==
    \/ Construct(candidate, AirbusA345)
    \/ \E call \in ScenarioCalls : AllocateSeat(call[1], call[2])
    \/ NumAvailableSeats
    \/ MakingBoardingCards

SpecScenario == InitScenario /\ [][NextScenario]_vars

(***************************************************************************)
(* What the properties below speak of.                                     *)
(***************************************************************************)
\* The (row, letter) pairs of the layout.
Cells(ac) == {<<ac.rows[i], ac.seats[j]>> : i \in 1..Len(ac.rows), j \in 1..Len(ac.seats)}

Valid(seat) == parse_seat(aircraft, seat).err = ""

CellOf(seat) == <<parse_seat(aircraft, seat).row, parse_seat(aircraft, seat).letter>>

\* The occupant of cell c in the list s
At(s, c) == get_seat(s, c[1], c[2])

OccupiedCells(s) == {c \in Cells(aircraft) : At(s, c) # None}

SeatErrors ==
    {"InvalidSeatLetter", "InvalidSeatRow", "SeatOccupied", "NoPassengerToRelocate"}

Relocated == pc = "live" /\ last.op = "relocate_passenger"

Allocated == pc = "live" /\ last.op = "allocate_seat"

Constructed == pc = "live" /\ last.op = "__init__"

\* C1: relocating from a valid occupied seat to a valid empty seat returns
\* normally; the destination then holds the source's passenger, the source
\* is empty, every other cell is as before and as many cells are occupied.
C1_RelocateMovesPassenger ==
    (/\ Relocated
     /\ Valid(last.args[1]) /\ Valid(last.args[2])
     /\ At(last.before.seating, CellOf(last.args[1])) # None
     /\ At(last.before.seating, CellOf(last.args[2])) = None)
    => (/\ last.raised = ""
        /\ At(seating, CellOf(last.args[2]))
             = At(last.before.seating, CellOf(last.args[1]))
        /\ At(seating, CellOf(last.args[1])) = None
        /\ \A c \in Cells(aircraft) \ {CellOf(last.args[1]), CellOf(last.args[2])} :
                At(seating, c) = At(last.before.seating, c)
        /\ Cardinality(OccupiedCells(seating))
             = Cardinality(OccupiedCells(last.before.seating)))

\* C2: relocating from a valid occupied seat to a valid seat that already
\* holds a passenger raises SeatOccupied and leaves the seat map as it was.
C2_RelocateToOccupiedRejected ==
    (/\ Relocated
     /\ Valid(last.args[1]) /\ Valid(last.args[2])
     /\ At(last.before.seating, CellOf(last.args[1])) # None
     /\ At(last.before.seating, CellOf(last.args[2])) # None)
    => (last.raised = "SeatOccupied" /\ seating = last.before.seating)

\* C3: relocating an occupied seat onto itself raises SeatOccupied and the
\* passenger is still in that seat afterwards.
C3_RelocateToSameSeatRejected ==
    (/\ Relocated
     /\ Valid(last.args[1]) /\ Valid(last.args[2])
     /\ CellOf(last.args[1]) = CellOf(last.args[2])
     /\ At(last.before.seating, CellOf(last.args[1])) # None)
    => (/\ last.raised = "SeatOccupied"
        /\ At(seating, CellOf(last.args[1]))
             = At(last.before.seating, CellOf(last.args[1])))

\* C4: relocating from a valid seat whose cell is empty to any valid seat
\* raises NoPassengerToRelocate and leaves the seat map as it was, whether
\* the destination is occupied or not.
C4_RelocateFromEmptyRejected ==
    (/\ Relocated
     /\ Valid(last.args[1]) /\ Valid(last.args[2])
     /\ At(last.before.seating, CellOf(last.args[1])) = None)
    => (last.raised = "NoPassengerToRelocate" /\ seating = last.before.seating)

C4_Witness ==
    /\ Relocated
    /\ Valid(last.args[1]) /\ Valid(last.args[2])
    /\ At(last.before.seating, CellOf(last.args[1])) = None
    /\ At(last.before.seating, CellOf(last.args[2])) # None
    /\ last.raised = "NoPassengerToRelocate"

\* C5: an allocate_seat that returns normally lowers num_available_seats()
\* by exactly 1, and an allocate_seat on the same seat made right after it,
\* with any passenger, raises SeatOccupied and changes neither the count
\* nor the occupant of the cell.
C5_AllocateTakesOneSeat ==
    /\ (Allocated /\ last.raised = "")
        => num_available_seats(seating)
             = num_available_seats(last.before.seating) - 1
    /\ (/\ Allocated
        /\ allocated # <<>>
        /\ Valid(last.args[1])
        /\ CellOf(last.args[1]) = CellOf(allocated[1]))
        => (/\ last.raised = "SeatOccupied"
            /\ num_available_seats(seating)
                 = num_available_seats(last.before.seating)
            /\ At(seating, CellOf(last.args[1])) = allocated[2])

C5_Witness ==
    /\ Allocated
    /\ allocated # <<>>
    /\ Valid(last.args[1])
    /\ CellOf(last.args[1]) = CellOf(allocated[1])
    /\ last.args[2] # allocated[2]
    /\ last.raised = "SeatOccupied"
    /\ num_available_seats(seating) = Cardinality(Cells(aircraft)) - 2

\* C6: when allocate_seat returns normally the named cell holds the
\* passenger, and every other cell, the flight number and the aircraft are
\* as they were before the call.
C6_AllocateWritesOneCell ==
    (Allocated /\ last.raised = "")
    => (/\ At(seating, CellOf(last.args[1])) = last.args[2]
        /\ \A c \in Cells(aircraft) \ {CellOf(last.args[1])} :
                At(seating, c) = At(last.before.seating, c)
        /\ Len(seating) = Len(last.before.seating)
        /\ number = last.before.number
        /\ aircraft = last.before.aircraft)

C6_Witness ==
    /\ Allocated
    /\ last.raised = ""
    /\ Cardinality(OccupiedCells(last.before.seating)) = 2
    /\ Cardinality(OccupiedCells(seating)) = 3

\* C7: an allocate_seat or relocate_passenger call that raises one of the
\* seat errors leaves the seat map exactly as it was before the call.
C7_FailedCallWritesNothing ==
    ((Allocated \/ Relocated) /\ last.raised \in SeatErrors)
    => seating = last.before.seating

C7_Witness ==
    /\ Relocated
    /\ last.raised = "SeatOccupied"
    /\ Valid(last.args[1])
    /\ At(last.before.seating, CellOf(last.args[1])) # None
    /\ seating = last.before.seating

\* C8: right after a successful construction every cell is empty and
\* num_available_seats() is the number of rows times the number of seat
\* letters; the placeholder entry of the list is not counted.
C8_FreshFlightIsEmpty ==
    Constructed
    => (/\ num_available_seats(seating) = Len(aircraft.rows) * Len(aircraft.seats)
        /\ Cardinality(Cells(aircraft)) = Len(aircraft.rows) * Len(aircraft.seats)
        /\ \A c \in Cells(aircraft) : At(seating, c) = None)

C8_Witness ==
    /\ Constructed
    /\ aircraft = Boeing777
    /\ seating[1].isNone
    /\ num_available_seats(seating) = 242

\* The shape of a flight number, as the properties of the validation read
\* it.  "The first two characters" of a number shorter than two characters
\* are the characters it has.
Code(n) == SubSeq(n, 1, IF Len(n) < 2 THEN Len(n) ELSE 2)

IsLetter(c) == c \in UpperChars \cup LowerChars \cup UncasedAlphaChars

HasAlphabeticCode(n) ==
    Len(Code(n)) > 0 /\ \A i \in 1..Len(Code(n)) : IsLetter(Code(n)[i])

HasUppercaseCode(n) == \A i \in 1..Len(Code(n)) : Code(n)[i] \in UpperChars

WellFormedCode(n) == Len(n) >= 2 /\ n[1] \in UpperChars /\ n[2] \in UpperChars

Route(n) == SubSeq(n, 3, Len(n))

AllDecimal(s) == \A i \in 1..Len(s) : s[i] \in DecimalChars

ConstructorCalled == last.op = "__init__"

\* C9: the validation applies its three rules in order and the first rule
\* that fails names the error: first two characters not alphabetic gives
\* MissingAirlineCode; else not both upper case gives InvalidAirlineCode;
\* else a remainder that is empty, holds a non-digit or has a value above
\* 9999 gives InvalidRouteNumber.
C9_FirstFailingRuleNamesError ==
    ConstructorCalled
    => LET n == last.args[1]
       IN  IF ~HasAlphabeticCode(n) THEN last.raised = "MissingAirlineCode"
           ELSE IF ~HasUppercaseCode(n) THEN last.raised = "InvalidAirlineCode"
           ELSE (\/ Len(Route(n)) = 0
                 \/ ~AllDecimal(Route(n))
                 \/ DecimalValue(Route(n)) > 9999)
                => last.raised = "InvalidRouteNumber"

\* C10: a flight number whose remainder after the airline code is not a
\* number of 1 to 4 digits is rejected, and it is rejected with
\* InvalidRouteNumber when the airline code is two upper-case letters.
C10_RouteOfOneToFourDigits ==
    (/\ ConstructorCalled
     /\ ~(Len(Route(last.args[1])) \in 1..4 /\ AllDecimal(Route(last.args[1]))))
    => (/\ last.raised # ""
        /\ pc = "failed"
        /\ WellFormedCode(last.args[1]) => last.raised = "InvalidRouteNumber")

\* Two upper-case letters followed by 1 to 4 decimal digits.
WellFormedNumber(n) ==
    WellFormedCode(n) /\ Len(Route(n)) \in 1..4 /\ AllDecimal(Route(n))

\* C11: for every flight number of the form two upper-case letters and 1 to
\* 4 digits the construction succeeds, number() is that text and airline()
\* its first two characters, and both stay so after any calls of
\* allocate_seat, relocate_passenger, num_available_seats and
\* making_boarding_cards, whether they raise or not.
C11_NumberKept ==
    (WellFormedNumber(candidate) /\ pc # "new")
    => (/\ pc = "live"
        /\ number = candidate
        /\ airline(number) = <<candidate[1], candidate[2]>>
        /\ last.op = "number" => last.result = candidate
        /\ last.op = "airline" => last.result = <<candidate[1], candidate[2]>>)

C11_Witness ==
    /\ WellFormedNumber(candidate)
    /\ Len(candidate) = 6
    /\ last.op = "airline"
    /\ last.result = <<"B", "B">>
    /\ OccupiedCells(seating) # {}

Parsed == pc = "live" /\ last.op = "_parse_seat"

\* C12: _parse_seat takes the last character as the letter and the rest as
\* the row text and tests the letter first: a letter outside the layout
\* raises InvalidSeatLetter whatever the row text; with a letter of the
\* layout, a row text that is empty or is not read as an integer raises
\* InvalidSeatRow, and so does an integer that is not a row of the layout;
\* otherwise (row, letter) is returned, with row among the rows and letter
\* among the letters of the layout.
C12_ParseTestsLetterFirst ==
    (Parsed /\ Len(last.args[1]) > 0)
    => LET seat == last.args[1]
           letter == seat[Len(seat)]
           row_text == SubSeq(seat, 1, Len(seat) - 1)
       IN  IF letter \notin Elements(aircraft.seats)
           THEN last.raised = "InvalidSeatLetter"
           ELSE IF Len(row_text) = 0 \/ ~int(row_text).ok
           THEN last.raised = "InvalidSeatRow"
           ELSE IF int(row_text).val \notin Elements(aircraft.rows)
           THEN last.raised = "InvalidSeatRow"
           ELSE /\ last.raised = ""
                /\ last.result = <<int(row_text).val, letter>>
                /\ last.result[1] \in Elements(aircraft.rows)
                /\ last.result[2] \in Elements(aircraft.seats)
                /\ seating = last.before.seating

\* A letter outside the layout together with a row text that is no number.
C12_Witness ==
    /\ Parsed
    /\ last.args[1] = <<"x", "1", "Z">>
    /\ last.raised = "InvalidSeatLetter"

Emitted == pc = "live" /\ last.op = "making_boarding_cards"

\* The designator text of a cell
SeatText(c) == str(c[1]) \o <<c[2]>>

\* C13: making_boarding_cards calls the printer exactly once for each
\* occupied cell and for no empty cell, in ascending order of passenger
\* name, equal names in ascending order of seat text, each call with the
\* cell's passenger, its seat text, the flight number and the model name.
C13_OneCardPerPassengerInNameOrder ==
    Emitted
    => LET cards == last.result
           occ == OccupiedCells(last.before.seating)
       IN  /\ last.raised = ""
           /\ Len(cards) = Cardinality(occ)
           /\ \A c \in occ :
                Cardinality({i \in 1..Len(cards) :
                    cards[i] = <<At(last.before.seating, c), SeatText(c),
                                 number, aircraft.model>>}) = 1
           /\ \A i \in 1..Len(cards) :
                \E c \in occ : /\ cards[i][1] = At(last.before.seating, c)
                               /\ cards[i][2] = SeatText(c)
           /\ \A i, j \in 1..Len(cards) :
                i < j => \/ str_lt(NameText[cards[i][1]], NameText[cards[j][1]])
                         \/ /\ cards[i][1] = cards[j][1]
                            /\ str_lt(cards[i][2], cards[j][2])

\* Three cards, two of them for the same name, whose order in the seat map
\* (1A before 12C) is not their order by seat text.
C13_Witness ==
    /\ Emitted
    /\ Len(last.result) = 3
    /\ \E i \in 1..2 :
        /\ last.result[i][1] = last.result[i + 1][1]
        /\ last.result[i][2] = <<"1", "2", "C">>
        /\ last.result[i + 1][2] = <<"1", "A">>

AllScenarioCallsMade ==
    /\ pc = "live"
    /\ \A call \in ScenarioCalls : At(seating, CellOf(call[1])) = call[2]

\* C14: on the Airbus layout the five allocations of make_flights succeed
\* on a fresh flight; after them num_available_seats() is 22*6 - 5 = 127
\* and the cards are printed in the order Dude Perfect, Flir Digg,
\* Lionel Man, Pana Wana, Zen Mod.
C14_AirbusScenario ==
    /\ (Allocated /\ At(last.before.seating, CellOf(last.args[1])) = None)
        => (last.raised = "" /\ At(seating, CellOf(last.args[1])) = last.args[2])
    /\ AllScenarioCallsMade
        => (/\ num_available_seats(seating) = 22 * 6 - 5
            /\ num_available_seats(seating) = 127
            /\ last.op = "num_available_seats" => last.result = 127
            /\ Emitted
                => [i \in 1..Len(last.result) |-> last.result[i][1]]
                     = <<"Dude Perfect", "Flir Digg", "Lionel Man", "Pana Wana",
                         "Zen Mod">>)

C14_Witness ==
    /\ AllScenarioCallsMade
    /\ Emitted
    /\ Len(last.result) = 5
    /\ last.result[1] = <<"Dude Perfect", <<"1", "0", "A">>,
                          <<"B", "A", "1", "6", "5", "4">>, "Airbus A345">>

\* A call made on the flight, with the seat map before it in last.before.
Stepped == pc = "live" /\ last.op # "__init__"

\* C15: every call changes each cell only along the cell's state machine:
\* a cell goes from empty to occupied only by allocate_seat on it or as the
\* destination of a relocation, and from occupied to empty only as the
\* source of a relocation that in the same call fills another, previously
\* empty, cell with its passenger; no call replaces the passenger of an
\* occupied cell by another, and none empties a cell without its passenger
\* appearing in another cell.
C15_CellStateMachine ==
    Stepped
    => \A c \in Cells(aircraft) :
        LET was == At(last.before.seating, c)
            is == At(seating, c)
        IN  /\ (was = None /\ is # None)
                => \/ /\ Allocated
                      /\ CellOf(last.args[1]) = c
                      /\ is = last.args[2]
                   \/ /\ Relocated
                      /\ CellOf(last.args[2]) = c
                      /\ is = At(last.before.seating, CellOf(last.args[1]))
            /\ (was # None /\ is = None)
                => /\ Relocated
                   /\ CellOf(last.args[1]) = c
                   /\ \E d \in Cells(aircraft) \ {c} :
                        /\ At(last.before.seating, d) = None
                        /\ At(seating, d) = was
            /\ (was # None /\ is # None) => is = was

\* The cells of the list s that hold passenger p
CellsHolding(s, p) == {c \in Cells(aircraft) : At(s, c) = p}

\* The change a call is allowed to make to a count of occupied cells:
\* one more after an allocate_seat that returned normally, else none.
Placed(p) ==
    IF Allocated /\ last.raised = "" /\ last.args[2] = p THEN 1 ELSE 0

\* C16: passengers are conserved. Every allocate_seat or relocate_passenger
\* call leaves the number of occupied cells equal to the number before it
\* plus one when it is an allocate_seat that succeeded, and for every
\* passenger the number of cells that hold it changes the same way; so the
\* occupied cells always count the successful allocations and no call
\* removes a passenger from the flight.
C16_PassengersConserved ==
    (Allocated \/ Relocated)
    => /\ Cardinality(OccupiedCells(seating))
            = Cardinality(OccupiedCells(last.before.seating))
                + (IF Allocated /\ last.raised = "" THEN 1 ELSE 0)
       /\ \A p \in Passengers :
            Cardinality(CellsHolding(seating, p))
                = Cardinality(CellsHolding(last.before.seating, p)) + Placed(p)

\* The (row, letter) pairs that the list s has a cell for: Python's index i
\* of a dict entry is the row number its cells are reached by.
MapCells(s) ==
    {<<i - 1, letter>> : i \in {k \in 1..Len(s) : ~s[k].isNone},
                         letter \in Elements(aircraft.seats)}

HasLayoutShape(s) ==
    /\ Len(s) = 1 + Len(aircraft.rows)
    /\ s[1].isNone
    /\ \A i \in 2..Len(s) :
        ~s[i].isNone /\ DOMAIN s[i].d = Elements(aircraft.seats)

\* C17: in every state of a constructed flight the seat map has exactly
\* rows x letters cells, one for each (row, letter) pair of the layout and
\* none outside it, and num_available_seats() is rows x letters less the
\* number of occupied cells; no allocate_seat or relocate_passenger call,
\* whether it returns or raises, adds or removes a cell.
C17_MapHasLayoutCells ==
    pc = "live"
    => /\ HasLayoutShape(seating)
       /\ MapCells(seating) = Cells(aircraft)
       /\ Cardinality(MapCells(seating))
            = Len(aircraft.rows) * Len(aircraft.seats)
       /\ num_available_seats(seating)
            = Len(aircraft.rows) * Len(aircraft.seats)
                - Cardinality(OccupiedCells(seating))
       /\ (Allocated \/ Relocated)
            => /\ HasLayoutShape(last.before.seating)
               /\ MapCells(last.before.seating) = MapCells(seating)

\* Reached: a relocation that raised, on a Boeing map with two occupied
\* cells, after which 240 of the 242 seats are free.
C17_Witness ==
    /\ Relocated /\ last.raised # ""
    /\ aircraft = Boeing777
    /\ Cardinality(OccupiedCells(seating)) = 2
    /\ num_available_seats(seating) = 240

\* The source seat of the relocation is a valid designator / its cell was
\* empty before the call.
FromValid == Valid(last.args[1])

SourceWasEmpty == At(last.before.seating, CellOf(last.args[1])) = None

\* C18: relocate_passenger parses both designators before it looks at any
\* cell: with a valid from_seat, an invalid to_seat always fails with
\* to_seat's own parse error, also when the source cell is empty, and
\* NoPassengerToRelocate is raised only when both designators are valid.
C18_BothParsedBeforeOccupancy ==
    Relocated
    => /\ (FromValid /\ ~Valid(last.args[2]))
            => last.raised = parse_seat(aircraft, last.args[2]).err
       /\ last.raised = "NoPassengerToRelocate"
            => (FromValid /\ Valid(last.args[2]))

\* C18 as the code has it: from_seat is parsed and its cell tested before
\* to_seat is parsed. With a valid from_seat whose cell is empty the call
\* raises NoPassengerToRelocate whether or not to_seat is valid; with a valid
\* from_seat whose cell is occupied an invalid to_seat raises to_seat's parse
\* error; NoPassengerToRelocate is raised only for a valid from_seat.
C18_SourceTestedBeforeToSeatParsed ==
    Relocated
    => /\ (FromValid /\ SourceWasEmpty)
            => last.raised = "NoPassengerToRelocate"
       /\ (FromValid /\ ~SourceWasEmpty /\ ~Valid(last.args[2]))
            => last.raised = parse_seat(aircraft, last.args[2]).err
       /\ last.raised = "NoPassengerToRelocate" => FromValid

\* Reached: a relocation from a valid empty seat to the designator 1Z, which
\* raised NoPassengerToRelocate and not InvalidSeatLetter.
C18_Witness ==
    /\ Relocated /\ FromValid /\ SourceWasEmpty
    /\ last.args[2] = <<"1", "Z">>
    /\ parse_seat(aircraft, last.args[2]).err = "InvalidSeatLetter"
    /\ last.raised = "NoPassengerToRelocate"

(***************************************************************************)
(* Flights on aircraft whose seating_plan() returns other rows than 1..n:  *)
(* Flight.__init__ takes any object with model() and seating_plan().       *)
(***************************************************************************)
Layouts ==
    {[model |-> "rows 1, 2", rows |-> range(1, 3), seats |-> <<"A", "B">>],
     [model |-> "rows 2, 3", rows |-> range(2, 4), seats |-> <<"A", "B">>],
     [model |-> "rows 1, 3", rows |-> <<1, 3>>, seats |-> <<"A", "B">>]}

LayoutSeats ==
    {<<"1", "A">>, <<"2", "A">>, <<"2", "B">>, <<"3", "A">>, <<"3", "B">>, <<"4", "A">>}

InitLayout == Start({<<"B", "A", "1", "6", "5", "4">>})

NextLayout ==
    \/ \E ac \in Layouts : Construct(candidate, ac)
    \/ \E seat \in LayoutSeats, passenger \in Passengers :
        AllocateSeat(seat, passenger)
    \/ \E from_seat, to_seat \in LayoutSeats :
        RelocatePassenger(from_seat, to_seat)
    \/ NumAvailableSeats
    \/ MakingBoardingCards

SpecLayout == InitLayout /\ [][NextLayout]_vars

InternalFaults == {"IndexError", "TypeError", "KeyError"}

\* The valid designators whose cell the list s can reach
Reachable(s) ==
    {seat \in LayoutSeats :
        /\ Valid(seat)
        /\ subscript_fault(s, CellOf(seat)[1], CellOf(seat)[2]) = ""}

\* C19: for a layout whose rows are any ascending sequence of positive
\* integers, every valid designator has one cell of its own: allocate_seat
\* on a valid designator never ends in an internal fault, on a flight with
\* no passengers it returns normally, and a successful call fills the
\* designator's cell and leaves the cell of every other valid designator
\* as it was.
C19_EveryValidSeatHasItsOwnCell ==
    (Allocated /\ Valid(last.args[1]))
    => /\ last.raised \notin InternalFaults
       /\ last.before.seating = initial_seating(aircraft) => last.raised = ""
       /\ last.raised = ""
            => /\ At(seating, CellOf(last.args[1])) = last.args[2]
               /\ \A seat \in Reachable(seating) \ {last.args[1]} :
                    At(seating, CellOf(seat))
                        = At(last.before.seating, CellOf(seat))

Counted == pc = "live" /\ last.op = "num_available_seats"

\* C20: num_available_seats() and making_boarding_cards() only read the
\* object: neither changes a cell of the seat map, so calling
\* making_boarding_cards again straight after an emission calls the printer
\* with the same sequence of arguments, and num_available_seats() gives the
\* same value after an emission as before it.
C20_ReadsArePure ==
    /\ (Counted \/ Emitted)
        => /\ seating = last.before.seating
           /\ number = last.before.number
           /\ aircraft = last.before.aircraft
    /\ Counted => last.result = num_available_seats(seating)
    /\ Emitted
        => /\ making_boarding_cards(seating, aircraft, number).cards = last.result
           /\ making_boarding_cards(seating, aircraft, number).seating = seating
           /\ num_available_seats(seating)
                = num_available_seats(last.before.seating)

\* Reached: an emission of two cards that left both passengers seated.
C20_Witness ==
    /\ Emitted /\ Len(last.result) = 2
    /\ Cardinality(OccupiedCells(seating)) = 2
    /\ seating = last.before.seating

====
